---- MODULE Spec2Model ----
(***************************************************************************)
(* Model of the queue-ingestion service: the schema validator              *)
(* (src/src/validator/schema_validator.py), the document store client      *)
(* (src/src/mongodb.py), the per-collection processing hooks               *)
(* (src/src/consumer/*_consumer.py and src/src/main.py) and the consumer   *)
(* base class (src/src/consumer/base_consumer.py).                         *)
(*                                                                         *)
(* Spec      message handling: the broker delivers messages to             *)
(*           _process_message_wrapper, which decodes, runs the hook and    *)
(*           acks or rejects.                                              *)
(* SpecConn  connection lifecycle: connect with backoff, the consumption   *)
(*           loop, reconnect and stop.                                     *)
(* SpecLive  the lifecycle without stop_consuming, with the fairness of    *)
(*           the consuming thread.                                         *)
(* SpecOrder handler dispatch: deliveries pushed up to the prefetch limit  *)
(*           and handled one at a time.                                    *)
(***************************************************************************)
EXTENDS Integers, Sequences, FiniteSets, TLC

VARIABLES
    \* ---- message handling ----
    kind,            \* the consumer's collection: "products", "stocks", "prices"
    variant,         \* hook implementation: "consumer" (src/consumer/*.py) or "main" (src/main.py)
    msgs,            \* bodies of the messages published so far; a message's id is its index
    ready,           \* broker main queue: sequence of message ids
    unacked,         \* ids delivered and not disposed of (still owned by the channel)
    dlq,             \* ids dead-lettered by the broker
    stored,          \* documents in the store: set of [coll, id]
    mongoConnected,  \* mongodb.connected
    last,            \* the record of the delivery handled last
    prev,            \* per message: hook outcome and disposition of its latest delivery
    \* ---- connection lifecycle ----
    pc,              \* position of the thread running start_consuming
    connection,      \* self.connection: "none", "open", "closed"
    channel,         \* self.channel: "none", "open", "closed"
    is_consuming,
    should_stop,
    consumer_tag,    \* self._consumer_tag: "none" or "tag"
    registered,      \* the handler is registered on the current channel
    closing_event,   \* self._closing_event is set
    connection_attempts,
    caller,          \* who called connect(): "init" or "reconnect"
    rcFrom,          \* where _reconnect was called from: "body" or "handler"
    call,            \* bookkeeping of the running/last top-level connect() call
    chanOps,         \* the set-up calls completed on the channel created last
    links,           \* [orphaned: an open connection made by connect() is no longer
                     \*  referenced; chanOwn: self.channel was made on self.connection]
    \* ---- handler dispatch ----
    buffer,          \* deliveries pushed to the consumer and not handled yet: [tag, id]
    handling,        \* deliveries whose handler was entered and has not returned
    events,          \* log of handler entries and dispositions: [ev, tag]
    pushed,          \* number of deliveries pushed so far (the last delivery tag)
    \* ---- the other consumers ----
    siblings,        \* state of the consumers of the other collections, by collection
    \* ---- the validator alone ----
    vIn,             \* the arguments of a validate_message call: [text, coll]
    vOut,            \* its result: [called, document, errors]
    \* ---- the query API ----
    apiConnected,    \* mongodb.connected in the process of the API server
    response         \* the answer to the lookup made last

msgVars == <<kind, variant, msgs, ready, unacked, dlq, stored, mongoConnected, last, prev>>
connVars == <<pc, connection, channel, is_consuming, should_stop, consumer_tag,
              registered, closing_event, connection_attempts, caller, rcFrom, call,
              chanOps, links>>
vars == <<kind, variant, msgs, ready, unacked, dlq, stored, mongoConnected, last, prev,
          pc, connection, channel, is_consuming, should_stop, consumer_tag,
          registered, closing_event, connection_attempts, caller, rcFrom, call,
          chanOps, links, buffer, handling, events, pushed, siblings, vIn, vOut,
          apiConnected, response>>
ordVars == <<buffer, handling, events, pushed>>
valVars == <<vIn, vOut>>
apiVars == <<apiConnected, response>>

----------------------------------------------------------------------------
\* Bounds of the model
MaxMsgs == 1
MaxDeliveries == 2

----------------------------------------------------------------------------
\* JSON values, by Python runtime type
Values == {"str", "estr", "int", "float", "bool", "null"}

TypeName(v) ==
    CASE v \in {"str", "estr"} -> "str"
      [] v = "int" -> "int"
      [] v = "float" -> "float"
      [] v = "bool" -> "bool"
      [] OTHER -> "NoneType"

\* isinstance(value, expected_type); bool is a subclass of int in Python
IsInstance(v, t) ==
    CASE t = "str" -> v \in {"str", "estr"}
      [] t = "int" -> v \in {"int", "bool"}
      [] t = "float" -> v = "float"
      [] OTHER -> FALSE

\* truthiness of a value ("bool" stands for true)
Truthy(v) == v \in {"str", "int", "float", "bool"}

Collections == {"products", "stocks", "prices"}

\* required fields, in declaration order, with their annotated types
SchemaFields(coll) ==
    CASE coll = "products" ->
           <<"product_code", "name", "description", "category", "brand">>
      [] coll = "stocks" ->
           <<"product_code", "warehouse_id", "quantity", "location">>
      [] coll = "prices" ->
           <<"product_code", "currency", "base_price", "discount_percentage",
             "final_price">>

SchemaType(coll, f) ==
    CASE coll = "stocks" /\ f = "quantity" -> "int"
      [] coll = "prices" /\ f \in {"base_price", "discount_percentage", "final_price"}
           -> "float"
      [] OTHER -> "str"

NoError == [kind |-> "none", field |-> "", expected |-> "", actual |-> ""]

\* the value read with document.get(field): a missing field looks like None
FieldError_GetDefault(document, coll, f) ==
    IF f \notin DOMAIN document
    THEN [kind |-> "Invalid type for field", field |-> f,
          expected |-> SchemaType(coll, f), actual |-> "NoneType"]
    ELSE IF ~IsInstance(document[f], SchemaType(coll, f))
         THEN [kind |-> "Invalid type for field", field |-> f,
               expected |-> SchemaType(coll, f), actual |-> TypeName(document[f])]
         ELSE NoError

FieldError(document, coll, f) ==
    IF f \notin DOMAIN document
    THEN [kind |-> "Missing required field", field |-> f, expected |-> "", actual |-> ""]
    ELSE IF ~IsInstance(document[f], SchemaType(coll, f))
         THEN [kind |-> "Invalid type for field", field |-> f,
               expected |-> SchemaType(coll, f), actual |-> TypeName(document[f])]
         ELSE NoError

\* a key the schema does not declare reported as an error
validate_document_Strict(document, coll) ==
    LET fs == SchemaFields(coll)
        all == [i \in 1..Len(fs) |-> FieldError(document, coll, fs[i])]
    IN SelectSeq(all, LAMBDA e : e # NoError) \o
       (IF DOMAIN document \subseteq {fs[i] : i \in 1..Len(fs)} THEN <<>>
        ELSE <<[kind |-> "Unexpected field", field |-> "", expected |-> "",
                actual |-> ""]>>)

validate_document(document, coll) ==
    LET fs == SchemaFields(coll)
        all == [i \in 1..Len(fs) |-> FieldError(document, coll, fs[i])]
    IN SelectSeq(all, LAMBDA e : e # NoError)

EmptyDoc == [f \in {} |-> "null"]

\* the ({}, [message]) results of validate_message
Failure(k, f) ==
    [document |-> EmptyDoc,
     errors |-> <<[kind |-> k, field |-> f, expected |-> "", actual |-> ""]>>]

\* the unknown collection reported beside the parsed document
validate_message_UnknownKeepsDocument(text, coll) ==
    IF text.json = "malformed" THEN Failure("Invalid JSON", "")
    ELSE IF text.json # "object" THEN Failure("Message must be a JSON object", "")
    ELSE IF coll \notin Collections
    THEN [document |-> text.doc, errors |-> Failure("Unknown collection", coll).errors]
    ELSE [document |-> text.doc, errors |-> validate_document(text.doc, coll)]

\* the schema looked up without the membership test: the KeyError reaches the
\* last handler
validate_message_KeyError(text, coll) ==
    IF text.json = "malformed" THEN Failure("Invalid JSON", "")
    ELSE IF text.json # "object" THEN Failure("Message must be a JSON object", "")
    ELSE IF coll \notin Collections THEN Failure("Validation error", coll)
    ELSE [document |-> text.doc, errors |-> validate_document(text.doc, coll)]

\* the parse failure not turned into a ValueError("Invalid JSON: ...")
validate_message_RawDecodeError(text, coll) ==
    IF text.json = "malformed" THEN Failure("Expecting value", "")
    ELSE IF text.json # "object" THEN Failure("Message must be a JSON object", "")
    ELSE IF coll \notin Collections THEN Failure("Unknown collection", coll)
    ELSE [document |-> text.doc, errors |-> validate_document(text.doc, coll)]

\* the collection resolved before the object test
validate_message_CollectionFirst(text, coll) ==
    IF text.json = "malformed" THEN Failure("Invalid JSON", "")
    ELSE IF coll \notin Collections THEN Failure("Unknown collection", coll)
    ELSE IF text.json # "object" THEN Failure("Message must be a JSON object", "")
    ELSE [document |-> text.doc, errors |-> validate_document(text.doc, coll)]

\* text.json: "malformed" (json.loads fails), "object" (text.doc holds the
\* parsed mapping), or the kind of a parsed value that is not an object
validate_message(text, coll) ==
    IF text.json = "malformed" THEN Failure("Invalid JSON", "")
    ELSE IF text.json # "object" THEN Failure("Message must be a JSON object", "")
    ELSE IF coll \notin Collections THEN Failure("Unknown collection", coll)
    ELSE [document |-> text.doc, errors |-> validate_document(text.doc, coll)]

----------------------------------------------------------------------------
\* The consumers of the other collections.  start_consumers builds one consumer
\* object per collection and runs each in a process of its own; the fields of
\* BaseConsumer are instance attributes set in __init__.

SiblingConstructed ==
    [connection |-> "none", channel |-> "none", is_consuming |-> FALSE,
     should_stop |-> FALSE, connection_attempts |-> 0, consumer_tag |-> "none"]

SiblingConsuming ==
    [connection |-> "open", channel |-> "open", is_consuming |-> TRUE,
     should_stop |-> FALSE, connection_attempts |-> 1, consumer_tag |-> "tag"]

\* the other consumers right after start_consumers built them
SiblingsConstructed(k) == [c \in Collections \ {k} |-> SiblingConstructed]

OwnWritesOnly_ClassAttributes ==
    siblings' = [c \in DOMAIN siblings |->
                    [siblings[c] EXCEPT !.should_stop = should_stop',
                                        !.is_consuming = is_consuming',
                                        !.connection_attempts = connection_attempts']]

\* a step of this consumer writes attributes of its own object only
OwnWritesOnly == siblings' = siblings

----------------------------------------------------------------------------
\* Document store client (the process-wide mongodb singleton).
\* up: the store is reachable; err: insert_one raises a PyMongoError.

\* MongoDB.connect: returns (and leaves in self.connected) whether the ping succeeded
mongodb_connect(up) == up

\* MongoDB.insert_document: [id |-> an identifier was returned, connected |-> self.connected after]
insert_document(connected, up, err) ==
    LET c == IF ~connected THEN mongodb_connect(up) ELSE connected
    IN IF ~c
       THEN [id |-> FALSE, connected |-> FALSE]       \* get_collection returned None
       ELSE [id |-> up /\ ~err, connected |-> TRUE]   \* insert_one, PyMongoError -> None

----------------------------------------------------------------------------
\* Processing hooks.  Result: outcome "ok" (returned), "ValueError" or "Error"
\* (any other exception); insert "notcalled", "id" or "None"; coll: the collection
\* inserted into; connected: mongodb.connected afterwards.

HookResult(outcome, insert, coll, connected) ==
    [outcome |-> outcome, insert |-> insert, coll |-> coll, connected |-> connected]

\* the hook's action on an insert that returned no identifier
InsertFailedOutcome == "Error"

\* the hook's action on a non-empty error list
InvalidOutcome == "ok"

\* the hook's action on a document without a (truthy) collection field
MissingCollectionOutcome == "ValueError"

\* src/consumer/product_consumer.py
ProductConsumer_process_message(text, connected, up, err) ==
    LET v == validate_message(text, "products")
        c1 == IF ~connected THEN mongodb_connect(up) ELSE connected
        ins == insert_document(c1, up, err)
    IN IF v.errors # <<>>
       THEN HookResult(InvalidOutcome, "notcalled", "", connected)
       ELSE IF ins.id
            THEN HookResult("ok", "id", "products", ins.connected)
            ELSE HookResult(InsertFailedOutcome, "None", "products", ins.connected)

\* src/consumer/stock_consumer.py and src/consumer/price_consumer.py (same shape);
\* the document is inserted into the collection named by its own collection field
SubroutedConsumer_process_message(coll, text, connected, up, err) ==
    LET v == validate_message(text, coll)
        c1 == IF ~connected THEN mongodb_connect(up) ELSE connected
        ins == insert_document(c1, up, err)
    IN IF v.errors # <<>>
       THEN HookResult(InvalidOutcome, "notcalled", "", connected)
       ELSE IF "collection" \notin DOMAIN v.document \/ ~Truthy(v.document["collection"])
            THEN HookResult(MissingCollectionOutcome, "notcalled", "", c1)
            ELSE IF ins.id
                 THEN HookResult("ok", "id", "document.collection", ins.connected)
                 ELSE HookResult(InsertFailedOutcome, "None", "document.collection",
                                 ins.connected)

\* src/main.py: the three consumers the supervisor starts; the result of
\* insert_document is not looked at
Main_process_message(coll, text, connected, up, err) ==
    LET v == validate_message(text, coll)
        ins == insert_document(connected, up, err)
    IN IF v.errors # <<>>
       THEN HookResult(InvalidOutcome, "notcalled", "", connected)
       ELSE HookResult("ok", IF ins.id THEN "id" ELSE "None", coll, ins.connected)

process_message(k, v, text, connected, up, err) ==
    IF v = "main" THEN Main_process_message(k, text, connected, up, err)
    ELSE IF k = "products" THEN ProductConsumer_process_message(text, connected, up, err)
    ELSE SubroutedConsumer_process_message(k, text, connected, up, err)

----------------------------------------------------------------------------
\* BaseConsumer._process_message_wrapper.
\* Every ack/reject is guarded by channel.is_open and may itself raise; an
\* exception raised by a disposition call is handled by the enclosing handlers.
\* openUntil: the channel reports open at the first openUntil guards (a closed
\* channel stays closed); nRaise: the first nRaise disposition calls raise.

DispositionChain_TransientToDlq(decoded, outcome) ==
    IF ~decoded THEN <<"reject_dlq">>
    ELSE CASE outcome = "ok" -> <<"ack", "reject_requeue", "reject_requeue">>
           [] OTHER -> <<"reject_dlq", "reject_requeue">>

DispositionChain_DecodeRequeued(decoded, outcome) ==
    IF ~decoded THEN <<"reject_requeue">>
    ELSE CASE outcome = "ok" -> <<"ack", "reject_requeue", "reject_requeue">>
           [] outcome = "ValueError" -> <<"reject_dlq", "reject_requeue">>
           [] OTHER -> <<"reject_requeue", "reject_requeue">>

\* the disposition attempted at each level, by what happened before
DispositionChain(decoded, outcome) ==
    IF ~decoded THEN <<"reject_dlq">>                               \* lines 266-272
    ELSE CASE outcome = "ok" -> <<"ack", "reject_requeue", "reject_requeue">>
                                                                    \* 245, 264, 280
           [] outcome = "ValueError" -> <<"reject_dlq", "reject_requeue">>   \* 255, 280
           [] OTHER -> <<"reject_requeue", "reject_requeue">>       \* 264, 280

RECURSIVE Dispose_Unguarded(_, _, _, _)
Dispose_Unguarded(chain, i, openUntil, nRaise) ==
    IF i > Len(chain) THEN [calls |-> <<>>, escaped |-> TRUE]
    ELSE IF i > nRaise THEN [calls |-> <<[op |-> chain[i], raised |-> FALSE]>>,
                             escaped |-> FALSE]
    ELSE LET rest == Dispose_Unguarded(chain, i + 1, openUntil, nRaise)
         IN [calls |-> <<[op |-> chain[i], raised |-> TRUE]>> \o rest.calls,
             escaped |-> rest.escaped]

RECURSIVE Dispose(_, _, _, _)
Dispose(chain, i, openUntil, nRaise) ==
    IF i > Len(chain) THEN [calls |-> <<>>, escaped |-> TRUE]
    ELSE IF i > openUntil THEN [calls |-> <<>>, escaped |-> FALSE]
    ELSE IF i > nRaise THEN [calls |-> <<[op |-> chain[i], raised |-> FALSE]>>,
                             escaped |-> FALSE]
    ELSE LET rest == Dispose(chain, i + 1, openUntil, nRaise)
         IN [calls |-> <<[op |-> chain[i], raised |-> TRUE]>> \o rest.calls,
             escaped |-> rest.escaped]

NotCalled(connected) == HookResult("notcalled", "notcalled", "", connected)

\* what the handler did with one delivery (mongodb.connected afterwards included)
process_message_wrapper(body, k, v, connected, up, err, openUntil, nRaise) ==
    LET decoded == body.utf8
        h == IF decoded THEN process_message(k, v, body.text, connected, up, err)
             ELSE NotCalled(connected)
        d == Dispose(DispositionChain(decoded, h.outcome), 1, openUntil, nRaise)
    IN [decoded |-> decoded, hook |-> h.outcome, insert |-> h.insert, coll |-> h.coll,
        connected |-> h.connected, open |-> openUntil >= 1, openUntil |-> openUntil,
        calls |-> d.calls, escaped |-> d.escaped]

\* the disposition the broker received: the call that did not raise, if any
Effective(calls) ==
    IF calls # <<>> /\ ~calls[Len(calls)].raised
    THEN calls[Len(calls)].op
    ELSE "none"

----------------------------------------------------------------------------
\* Message bodies
Range(s) == {s[i] : i \in DOMAIN s}

ValueOfType(t) == CASE t = "int" -> "int" [] t = "float" -> "float" [] OTHER -> "str"

ValidDoc(coll) ==
    [f \in Range(SchemaFields(coll)) |-> ValueOfType(SchemaType(coll, f))]

ValidDocWithCollection(coll) ==
    [f \in Range(SchemaFields(coll)) \cup {"collection"} |->
        IF f = "collection" THEN "str" ELSE ValueOfType(SchemaType(coll, f))]

OnlyProductCode == [f \in {"product_code"} |-> "str"]

Text(json, doc) == [json |-> json, doc |-> doc]

Undecodable == [utf8 |-> FALSE, text |-> Text("malformed", EmptyDoc)]

Bodies(coll) ==
    { Undecodable,
      [utf8 |-> TRUE, text |-> Text("malformed", EmptyDoc)],
      [utf8 |-> TRUE, text |-> Text("object", OnlyProductCode)],
      [utf8 |-> TRUE, text |-> Text("object", ValidDoc(coll))],
      [utf8 |-> TRUE, text |-> Text("object", ValidDocWithCollection(coll))] }

SchemaValid(body, coll) ==
    body.utf8 /\ validate_message(body.text, coll).errors = <<>>

----------------------------------------------------------------------------
\* Message handling: actions

\* no lookup was made through the query API
NoResponse ==
    [status |-> 0, code |-> 0, detail |-> "", body |-> EmptyDoc, store |-> "down",
     acked |-> FALSE]

NoApi ==
    /\ apiConnected = FALSE
    /\ response = NoResponse

\* validate_message is not being looked at on its own
NoValidation ==
    /\ vIn = [text |-> Text("malformed", EmptyDoc), coll |-> "products"]
    /\ vOut = [called |-> FALSE, document |-> EmptyDoc, errors |-> <<>>]

NoDelivery ==
    [tag |-> 0, id |-> 0, decoded |-> FALSE, hook |-> "notcalled", insert |-> "notcalled",
     coll |-> "", storeUp |-> FALSE, open |-> FALSE, openUntil |-> 0, calls |-> <<>>,
     escaped |-> FALSE,
     prevHook |-> "none", prevEff |-> "none"]

MsgInit ==
    /\ kind \in Collections
    /\ variant \in {"consumer", "main"}
    /\ msgs = <<>>
    /\ ready = <<>>
    /\ unacked = {}
    /\ dlq = {}
    /\ stored = {}
    /\ mongoConnected = (variant = "main")  \* main() connects before it starts the consumers
    /\ last = NoDelivery
    /\ prev = <<>>
    /\ siblings = SiblingsConstructed(kind)

\* a producer publishes a message to the consumer's queue
Publish ==
    /\ Len(msgs) < MaxMsgs
    /\ \E b \in Bodies(kind) : msgs' = Append(msgs, b)
    /\ ready' = Append(ready, Len(msgs) + 1)
    /\ prev' = Append(prev, [hook |-> "none", eff |-> "none"])
    /\ UNCHANGED <<kind, variant, unacked, dlq, stored, mongoConnected, last>>
    /\ UNCHANGED connVars
    /\ UNCHANGED ordVars
    /\ OwnWritesOnly
    /\ UNCHANGED valVars
    /\ UNCHANGED apiVars

\* the broker delivers the head of the queue and the handler runs to completion.
\* store: the store is unreachable ("down"), reachable ("up"), or reachable with
\* insert_one raising a PyMongoError ("error")
Deliver ==
    /\ last.tag < MaxDeliveries
    /\ ready # <<>>
    /\ \E store \in {"down", "up", "error"}, openUntil \in 0..3 :
       \E nRaise \in 0..openUntil :
       \E r \in {process_message_wrapper(msgs[Head(ready)], kind, variant, mongoConnected,
                                          store # "down", store = "error",
                                          openUntil, nRaise)} :
         LET id == Head(ready)
             eff == Effective(r.calls)
         IN /\ last' = [tag |-> last.tag + 1, id |-> id, decoded |-> r.decoded,
                        hook |-> r.hook, insert |-> r.insert, coll |-> r.coll,
                        storeUp |-> store = "up", open |-> r.open,
                        openUntil |-> r.openUntil, calls |-> r.calls,
                        escaped |-> r.escaped,
                        prevHook |-> prev[id].hook, prevEff |-> prev[id].eff]
            /\ prev' = [prev EXCEPT ![id] = [hook |-> r.hook, eff |-> eff]]
            /\ mongoConnected' = r.connected
            /\ stored' = IF r.insert = "id"
                         THEN stored \cup {[coll |-> r.coll, id |-> id]}
                         ELSE stored
            /\ ready' = IF eff = "reject_requeue" THEN ready ELSE Tail(ready)
            /\ dlq' = IF eff = "reject_dlq" THEN dlq \cup {id} ELSE dlq
            /\ unacked' = IF eff = "none" THEN unacked \cup {id} ELSE unacked
    /\ UNCHANGED <<kind, variant, msgs>>
    /\ UNCHANGED connVars
    /\ UNCHANGED ordVars
    /\ OwnWritesOnly
    /\ UNCHANGED valVars
    /\ UNCHANGED apiVars

\* the channel that delivered them is closed: the broker requeues its unacked messages
RequeueUnacked ==
    /\ unacked # {}
    /\ \E id \in unacked :
         /\ ready' = <<id>> \o ready
         /\ unacked' = unacked \ {id}
    /\ UNCHANGED <<kind, variant, msgs, dlq, stored, mongoConnected, last, prev>>
    /\ UNCHANGED connVars
    /\ UNCHANGED ordVars
    /\ OwnWritesOnly
    /\ UNCHANGED valVars
    /\ UNCHANGED apiVars

----------------------------------------------------------------------------
\* Connection lifecycle (BaseConsumer)

MaxConnectionAttempts == 10   \* self._max_connection_attempts
RetryDelay == 5               \* settings.RABBITMQ_RETRY_DELAY
MaxRetryDelay == 60           \* the cap in connect()

RECURSIVE Pow2(_)
Pow2(n) == IF n = 0 THEN 1 ELSE 2 * Pow2(n - 1)

Min(a, b) == IF a < b THEN a ELSE b

\* connect(), lines 51-55: the counter as the attempt sees it
ResetAttempts(n) == IF n = 0 \/ n > MaxConnectionAttempts THEN 1 ELSE n

MayRetry_OffByOne(n) == n + 1 < MaxConnectionAttempts

MayRetry_Inclusive(n) == n <= MaxConnectionAttempts

\* connect(), line 84: a failed attempt is followed by a retry
MayRetry(n) == n < MaxConnectionAttempts

retry_delay_Uncapped(n) == RetryDelay * Pow2(n)

\* connect(), lines 85-87
retry_delay(n) == Min(RetryDelay * Pow2(n), MaxRetryDelay)

\* BaseConsumer.__init__, lines 31-32: the two queue names of a consumer
DlqSuffix == ".dlq"           \* settings.RABBITMQ_DLQ_SUFFIX

queue_name(k) == k

dlq_name_NoSuffix(k) == queue_name(k)

dlq_name(k) == queue_name(k) \o DlqSuffix

PrefetchCount == 10           \* settings.RABBITMQ_PREFETCH_COUNT

DlqMessageTtl == 1000 * 60 * 60 * 24 * 7

\* connect(), line 73
Qos == [op |-> "basic_qos", prefetch_count |-> PrefetchCount]

\* _setup_queues, lines 113-119
DeclareDlq(k) ==
    [op |-> "queue_declare", queue |-> dlq_name(k), durable |-> TRUE,
     arguments |-> [ttl |-> DlqMessageTtl]]

\* _setup_queues, lines 122-129
DeclareMain(k) ==
    [op |-> "queue_declare", queue |-> queue_name(k), durable |-> TRUE,
     arguments |-> [dlx |-> "", dlrk |-> dlq_name(k)]]

SetupCalls_MainFirst(k) == <<Qos, DeclareMain(k), DeclareDlq(k)>>

\* the calls connect() makes on a new channel, in order
SetupCalls(k) == <<Qos, DeclareDlq(k), DeclareMain(k)>>

NewCall(n) == [start |-> n, made |-> 0, delays |-> <<>>, result |-> "running"]

ConnConstructed ==
    /\ pc = "idle"
    /\ connection = "none"
    /\ channel = "none"
    /\ is_consuming = FALSE
    /\ should_stop = FALSE
    /\ consumer_tag = "none"
    /\ registered = FALSE
    /\ closing_event = FALSE
    /\ connection_attempts = 0
    /\ caller = "init"
    /\ rcFrom = "body"
    /\ call = [start |-> 0, made |-> 0, delays |-> <<>>, result |-> "none"]
    /\ chanOps = <<>>
    /\ links = [orphaned |-> FALSE, chanOwn |-> TRUE]

CloseConnection_KeepsHandles ==
    /\ channel' = IF channel = "none" THEN "none" ELSE "closed"
    /\ connection' = IF connection = "none" THEN "none" ELSE "closed"
    /\ links' = [links EXCEPT !.chanOwn = TRUE]

\* _close_connection: close errors are logged; both handles end up None.  Only
\* the referenced channel and connection are closed
CloseConnection ==
    /\ channel' = "none"
    /\ connection' = "none"
    /\ links' = [links EXCEPT !.chanOwn = TRUE]

\* stop_consuming, run to completion (also the except branches of start_consuming)
StopEffects ==
    /\ should_stop' = TRUE
    /\ is_consuming' = FALSE
    /\ registered' = FALSE
    /\ CloseConnection
    /\ closing_event' = TRUE

\* start_consuming up to the connect() call of _initialize_consumption
StartConsuming ==
    /\ pc \in {"idle", "returned"}
    /\ should_stop' = FALSE
    /\ IF connection = "none" \/ channel = "none"
       THEN /\ pc' = "connect"
            /\ caller' = "init"
            /\ call' = NewCall(connection_attempts)
       ELSE /\ pc' = "register"
            /\ UNCHANGED <<caller, call>>
    /\ UNCHANGED <<connection, channel, links, is_consuming, consumer_tag, registered,
                   closing_event, connection_attempts, rcFrom>>
    /\ UNCHANGED chanOps
    /\ UNCHANGED msgVars
    /\ UNCHANGED ordVars
    /\ OwnWritesOnly
    /\ UNCHANGED valVars
    /\ UNCHANGED apiVars

\* one connection attempt of connect(): the try block and, when it fails, the
\* except block up to the sleep.  how: where the attempt failed, if it did
ConnectAttempt ==
    /\ pc = "connect"
    /\ \E how \in {"ok", "connection", "channel", "setup", "setup_closed"} :
         LET n == ResetAttempts(connection_attempts)
         IN /\ \E k \in 0..(Len(SetupCalls(kind)) - 1) :
                 chanOps' = CASE how \in {"connection", "channel"} -> chanOps
                              [] how = "ok" -> SetupCalls(kind)
                              [] OTHER -> SubSeq(SetupCalls(kind), 1, k)
            /\ connection' = IF how = "connection" THEN connection ELSE "open"
            /\ links' = IF how = "connection" THEN links
                         ELSE [orphaned |-> links.orphaned \/ connection = "open",
                               chanOwn |-> how # "channel" \/ channel = "none"]
            /\ channel' = CASE how \in {"connection", "channel"} -> channel
                            [] how = "setup_closed" -> "closed"
                            [] OTHER -> "open"
            /\ registered' = IF how \in {"connection", "channel"} THEN registered ELSE FALSE
            /\ IF how = "ok"
               THEN /\ connection_attempts' = n
                    /\ call' = [call EXCEPT !.made = @ + 1, !.result = "True"]
                    /\ pc' = IF caller = "init" THEN "register" ELSE "reconnected"
               ELSE IF MayRetry(n)
               THEN /\ connection_attempts' = n + 1
                    /\ call' = [call EXCEPT !.made = @ + 1,
                                            !.delays = Append(@, retry_delay(n))]
                    /\ pc' = "backoff"
               ELSE /\ connection_attempts' = n
                    /\ call' = [call EXCEPT !.made = @ + 1, !.result = "False"]
                    /\ pc' = IF caller = "init" THEN "returned" ELSE "loop"
    /\ UNCHANGED <<is_consuming, should_stop, consumer_tag, closing_event, caller, rcFrom>>
    /\ UNCHANGED msgVars
    /\ UNCHANGED ordVars
    /\ OwnWritesOnly
    /\ UNCHANGED valVars
    /\ UNCHANGED apiVars

\* the backoff sleep ends: connect() calls itself
BackoffWake ==
    /\ pc = "backoff"
    /\ pc' = "connect"
    /\ UNCHANGED <<connection, channel, links, is_consuming, should_stop, consumer_tag,
                   registered, closing_event, connection_attempts, caller, rcFrom, call>>
    /\ UNCHANGED chanOps
    /\ UNCHANGED msgVars
    /\ UNCHANGED ordVars
    /\ OwnWritesOnly
    /\ UNCHANGED valVars
    /\ UNCHANGED apiVars

\* _initialize_consumption after connect(): register the handler.  An error of
\* basic_consume reaches the except branch of start_consuming
Register ==
    /\ pc = "register"
    /\ IF channel = "none"
       THEN /\ pc' = "returned"
            /\ UNCHANGED <<connection, channel, links, is_consuming, should_stop, consumer_tag,
                           registered, closing_event>>
       ELSE \E raises \in BOOLEAN :
              /\ raises \/ channel = "open"
              /\ IF raises
                 THEN /\ StopEffects
                      /\ pc' = "returned"
                      /\ UNCHANGED consumer_tag
                 ELSE /\ is_consuming' = TRUE
                      /\ consumer_tag' = "tag"
                      /\ registered' = TRUE
                      /\ pc' = "loop"
                      /\ UNCHANGED <<connection, channel, links, should_stop, closing_event>>
    /\ UNCHANGED <<connection_attempts, caller, rcFrom, call>>
    /\ UNCHANGED chanOps
    /\ UNCHANGED msgVars
    /\ UNCHANGED ordVars
    /\ OwnWritesOnly
    /\ UNCHANGED valVars
    /\ UNCHANGED apiVars

\* _reconnect up to the sleep
ReconnectFrom(from) ==
    IF should_stop
    THEN /\ pc' = "loop"
         /\ UNCHANGED <<connection, channel, links, rcFrom>>
    ELSE /\ CloseConnection
         /\ rcFrom' = from
         /\ pc' = "reconnect_sleep"

\* the loop as `while True`
LoopTop_NoStopCheck ==
    /\ pc = "loop"
    /\ IF channel = "open"
       THEN /\ pc' = "pulling"
            /\ UNCHANGED <<connection, channel, links, rcFrom>>
       ELSE ReconnectFrom("body")
    /\ UNCHANGED <<is_consuming, should_stop, consumer_tag, registered, closing_event,
                   connection_attempts, caller, call>>
    /\ UNCHANGED chanOps
    /\ UNCHANGED msgVars
    /\ UNCHANGED ordVars
    /\ OwnWritesOnly
    /\ UNCHANGED valVars
    /\ UNCHANGED apiVars

\* top of the while loop of _run_consumption_loop
LoopTop ==
    /\ pc = "loop"
    /\ IF should_stop
       THEN /\ pc' = "returned"
            /\ UNCHANGED <<connection, channel, links, rcFrom>>
       ELSE IF channel = "open"
       THEN /\ pc' = "pulling"
            /\ UNCHANGED <<connection, channel, links, rcFrom>>
       ELSE ReconnectFrom("body")
    /\ UNCHANGED <<is_consuming, should_stop, consumer_tag, registered, closing_event,
                   connection_attempts, caller, call>>
    /\ UNCHANGED chanOps
    /\ UNCHANGED msgVars
    /\ UNCHANGED ordVars
    /\ OwnWritesOnly
    /\ UNCHANGED valVars
    /\ UNCHANGED apiVars

\* channel.start_consuming() raises; _handle_consumption_error
PullRaises ==
    /\ pc = "pulling"
    /\ \E e \in {"lost", "amqp", "other"} :
         IF e = "other" /\ should_stop
         THEN /\ pc' = "loop"
              /\ UNCHANGED <<connection, channel, links, rcFrom>>
         ELSE ReconnectFrom("handler")
    /\ UNCHANGED <<is_consuming, should_stop, consumer_tag, registered, closing_event,
                   connection_attempts, caller, call>>
    /\ UNCHANGED chanOps
    /\ UNCHANGED msgVars
    /\ UNCHANGED ordVars
    /\ OwnWritesOnly
    /\ UNCHANGED valVars
    /\ UNCHANGED apiVars

\* channel.start_consuming() returns: no consumer is registered on the channel any more
PullReturns ==
    /\ pc = "pulling"
    /\ registered' = FALSE
    /\ pc' = "loop"
    /\ UNCHANGED <<connection, channel, links, is_consuming, should_stop, consumer_tag,
                   closing_event, connection_attempts, caller, rcFrom, call>>
    /\ UNCHANGED chanOps
    /\ UNCHANGED msgVars
    /\ UNCHANGED ordVars
    /\ OwnWritesOnly
    /\ UNCHANGED valVars
    /\ UNCHANGED apiVars

\* the broker or the transport closes the channel, or the connection with it
ChannelLost ==
    /\ channel = "open"
    /\ channel' = "closed"
    /\ connection' \in {connection, "closed"}
    /\ UNCHANGED links
    /\ registered' = FALSE
    /\ UNCHANGED <<pc, is_consuming, should_stop, consumer_tag, closing_event,
                   connection_attempts, caller, rcFrom, call>>
    /\ UNCHANGED chanOps
    /\ UNCHANGED msgVars
    /\ UNCHANGED ordVars
    /\ OwnWritesOnly
    /\ UNCHANGED valVars
    /\ UNCHANGED apiVars

\* _reconnect after the sleep: connect()
ReconnectWake ==
    /\ pc = "reconnect_sleep"
    /\ pc' = "connect"
    /\ caller' = "reconnect"
    /\ call' = NewCall(connection_attempts)
    /\ UNCHANGED <<connection, channel, links, is_consuming, should_stop, consumer_tag,
                   registered, closing_event, connection_attempts, rcFrom>>
    /\ UNCHANGED chanOps
    /\ UNCHANGED msgVars
    /\ UNCHANGED ordVars
    /\ OwnWritesOnly
    /\ UNCHANGED valVars
    /\ UNCHANGED apiVars

\* _reconnect after connect() returned True: re-register when still consuming.
\* An error of basic_consume is caught by the loop when _reconnect was called
\* from the try block, and leaves the loop when it was called from the handler
Reconnected ==
    /\ pc = "reconnected"
    /\ IF channel = "none" \/ ~is_consuming
       THEN /\ pc' = "loop"
            /\ UNCHANGED <<connection, channel, links, is_consuming, should_stop, consumer_tag,
                           registered, closing_event, rcFrom>>
       ELSE \E raises \in BOOLEAN :
              /\ raises \/ channel = "open"
              /\ IF ~raises
                 THEN /\ consumer_tag' = "tag"
                      /\ registered' = TRUE
                      /\ pc' = "loop"
                      /\ UNCHANGED <<connection, channel, links, is_consuming, should_stop,
                                     closing_event, rcFrom>>
                 ELSE IF rcFrom = "body"
                 THEN /\ ReconnectFrom("handler")
                      /\ UNCHANGED <<is_consuming, should_stop, consumer_tag, registered,
                                     closing_event>>
                 ELSE /\ StopEffects
                      /\ pc' = "returned"
                      /\ UNCHANGED <<consumer_tag, rcFrom>>
    /\ UNCHANGED <<connection_attempts, caller, call>>
    /\ UNCHANGED chanOps
    /\ UNCHANGED msgVars
    /\ UNCHANGED ordVars
    /\ OwnWritesOnly
    /\ UNCHANGED valVars
    /\ UNCHANGED apiVars

\* stop_consuming, called from another thread or a signal handler
StopConsuming ==
    /\ StopEffects
    /\ UNCHANGED <<pc, consumer_tag, connection_attempts, caller, rcFrom, call>>
    /\ UNCHANGED chanOps
    /\ UNCHANGED msgVars
    /\ UNCHANGED ordVars
    /\ OwnWritesOnly
    /\ UNCHANGED valVars
    /\ UNCHANGED apiVars

\* no delivery was pushed to the consumer yet
NoDispatch ==
    /\ buffer = <<>>
    /\ handling = {}
    /\ events = <<>>
    /\ pushed = 0

Init == MsgInit /\ ConnConstructed /\ NoDispatch /\ NoValidation /\ NoApi

Next == Publish \/ Deliver \/ RequeueUnacked

Spec == Init /\ [][Next]_vars

----------------------------------------------------------------------------
\* Query API (checked under SpecApi): the by-key endpoints of src/api/server.py
\* beside the consumer that fills the store.  The API server has a mongodb
\* singleton of its own process.

\* collection.insert_one gives a document without an _id a generated ObjectId,
\* and find_one returns the document as stored
StoredDocument(doc) ==
    [f \in DOMAIN doc \cup {"_id"} |-> IF f = "_id" THEN "ObjectId" ELSE doc[f]]

\* MongoDB.find_document_by_product_code.  store: as for Deliver; matches: the
\* documents of the collection that carry the product code
find_document_by_product_code(connected, store, matches) ==
    LET c == IF ~connected THEN mongodb_connect(store # "down") ELSE connected
    IN IF ~c
       THEN [found |-> FALSE, doc |-> EmptyDoc, connected |-> FALSE]   \* lines 156-157
       ELSE IF store # "up" \/ matches = {}
       THEN [found |-> FALSE, doc |-> EmptyDoc, connected |-> TRUE]    \* lines 159-165
       ELSE [found |-> TRUE, doc |-> CHOOSE d \in matches : TRUE, connected |-> TRUE]

\* JSONResponse(content=document): json.dumps of the content; a value that is
\* not a JSON value raises TypeError, which the server answers with 500
JSONResponse(content) ==
    IF \A f \in DOMAIN content : content[f] \in Values
    THEN [status |-> 200, detail |-> "", body |-> content]
    ELSE [status |-> 500, detail |-> "Internal Server Error", body |-> EmptyDoc]

\* get_product / get_stock / get_price after the lookup returned r
get_by_product_code(r) ==
    IF ~r.found
    THEN [status |-> 404, detail |-> "not found", body |-> EmptyDoc]
    ELSE JSONResponse(r.doc)

\* the API server after startup_event; main() starts it only once
\* mongodb.connect() succeeded
ApiStarted ==
    /\ apiConnected \in (IF variant = "main" THEN {TRUE} ELSE BOOLEAN)
    /\ response = NoResponse

\* GET /api/v1/<collection>/{product_code}.  code: the message whose product
\* code is asked for, 0 for a code no message carries; routed: the collection
\* field of a document stored by the Stock/Price consumer names this collection
GetByProductCode ==
    /\ \E code \in 0..Len(msgs), store \in {"down", "up", "error"}, routed \in BOOLEAN :
         LET hits == {e \in stored :
                         /\ e.id = code
                         /\ e.coll = kind \/ (e.coll = "document.collection" /\ routed)}
             matches == {StoredDocument(msgs[e.id].text.doc) : e \in hits}
             r == find_document_by_product_code(apiConnected, store, matches)
             a == get_by_product_code(r)
         IN /\ response' = [status |-> a.status, code |-> code, detail |-> a.detail,
                            body |-> a.body, store |-> store,
                            acked |-> code > 0 /\ prev[code].eff = "ack"]
            /\ apiConnected' = r.connected
    /\ UNCHANGED msgVars
    /\ UNCHANGED connVars
    /\ UNCHANGED ordVars
    /\ OwnWritesOnly
    /\ UNCHANGED valVars

ApiInit == MsgInit /\ ConnConstructed /\ NoDispatch /\ NoValidation /\ ApiStarted

ApiNext == Publish \/ Deliver \/ RequeueUnacked \/ GetByProductCode

SpecApi == ApiInit /\ [][ApiNext]_vars

ConnInit ==
    /\ ConnConstructed
    /\ kind \in Collections
    /\ variant = "consumer"
    /\ msgs = <<>>
    /\ ready = <<>>
    /\ unacked = {}
    /\ dlq = {}
    /\ stored = {}
    /\ mongoConnected = FALSE
    /\ last = NoDelivery
    /\ prev = <<>>
    /\ NoDispatch
    /\ siblings = SiblingsConstructed(kind)
    /\ NoValidation
    /\ NoApi

ConnNext ==
    \/ StartConsuming
    \/ ConnectAttempt
    \/ BackoffWake
    \/ Register
    \/ LoopTop
    \/ PullRaises
    \/ PullReturns
    \/ ChannelLost
    \/ ReconnectWake
    \/ Reconnected
    \/ StopConsuming

SpecConn == ConnInit /\ [][ConnNext]_vars

----------------------------------------------------------------------------
\* Handler dispatch (checked under SpecOrder): the consumer is registered and its
\* thread is inside channel.start_consuming().  The broker pushes deliveries up
\* to the prefetch limit; the thread enters the handler for the oldest buffered
\* delivery, runs the hook, issues the disposition and returns.

MaxBuffered == 2

\* the consumer after a successful start_consuming, blocked in the pull
ConnConsuming ==
    /\ pc = "pulling"
    /\ connection = "open"
    /\ channel = "open"
    /\ is_consuming = TRUE
    /\ should_stop = FALSE
    /\ consumer_tag = "tag"
    /\ registered = TRUE
    /\ closing_event = FALSE
    /\ connection_attempts = 1
    /\ caller = "init"
    /\ rcFrom = "body"
    /\ call = [start |-> 0, made |-> 1, delays |-> <<>>, result |-> "True"]
    /\ chanOps = SetupCalls(kind)
    /\ links = [orphaned |-> FALSE, chanOwn |-> TRUE]

OrdInit ==
    /\ kind \in Collections
    /\ variant \in {"consumer", "main"}
    /\ msgs \in [1..MaxBuffered -> Bodies(kind)]
    /\ ready = [i \in 1..MaxBuffered |-> i]
    /\ unacked = {}
    /\ dlq = {}
    /\ stored = {}
    /\ mongoConnected = (variant = "main")
    /\ last = NoDelivery
    /\ prev = [i \in 1..MaxBuffered |-> [hook |-> "none", eff |-> "none"]]
    /\ ConnConsuming
    /\ NoDispatch
    /\ siblings = SiblingsConstructed(kind)
    /\ NoValidation
    /\ NoApi

HandlerIdle_Reentrant == TRUE

\* the consuming thread is not inside the handler: the handler is a plain
\* synchronous call made from the one thread blocked in channel.start_consuming()
HandlerIdle == handling = {}

\* the broker pushes the head of the queue to the consumer (basic_qos bounds the
\* number of unacknowledged deliveries)
Push ==
    /\ pushed < MaxDeliveries
    /\ ready # <<>>
    /\ Cardinality(unacked) < PrefetchCount
    /\ buffer' = Append(buffer, [tag |-> pushed + 1, id |-> Head(ready)])
    /\ pushed' = pushed + 1
    /\ ready' = Tail(ready)
    /\ unacked' = unacked \cup {Head(ready)}
    /\ UNCHANGED <<kind, variant, msgs, dlq, stored, mongoConnected, last, prev,
                   handling, events>>
    /\ UNCHANGED connVars
    /\ OwnWritesOnly
    /\ UNCHANGED valVars
    /\ UNCHANGED apiVars

\* _process_message_wrapper up to the return (or exception) of the hook
HandlerEnter ==
    /\ buffer # <<>>
    /\ HandlerIdle
    /\ \E store \in {"down", "up", "error"} :
         LET d == Head(buffer)
             body == msgs[d.id]
             h == IF body.utf8
                  THEN process_message(kind, variant, body.text, mongoConnected,
                                       store # "down", store = "error")
                  ELSE NotCalled(mongoConnected)
         IN /\ buffer' = Tail(buffer)
            /\ handling' = handling \cup {[tag |-> d.tag, id |-> d.id,
                                            decoded |-> body.utf8, outcome |-> h.outcome]}
            /\ events' = Append(events, [ev |-> IF body.utf8 THEN "hook" ELSE "decode_error",
                                         tag |-> d.tag])
            /\ stored' = IF h.insert = "id"
                         THEN stored \cup {[coll |-> h.coll, id |-> d.id]}
                         ELSE stored
            /\ mongoConnected' = h.connected
    /\ UNCHANGED <<kind, variant, msgs, ready, unacked, dlq, last, prev, pushed>>
    /\ UNCHANGED connVars
    /\ OwnWritesOnly
    /\ UNCHANGED valVars
    /\ UNCHANGED apiVars

\* _process_message_wrapper from the disposition to its return
HandlerReturn ==
    /\ \E h \in handling, openUntil \in 0..3 :
       \E nRaise \in 0..openUntil :
         LET d == Dispose(DispositionChain(h.decoded, h.outcome), 1, openUntil, nRaise)
             eff == Effective(d.calls)
         IN /\ handling' = handling \ {h}
            /\ events' = Append(events, [ev |-> eff, tag |-> h.tag])
            /\ ready' = IF eff = "reject_requeue" THEN <<h.id>> \o ready ELSE ready
            /\ dlq' = IF eff = "reject_dlq" THEN dlq \cup {h.id} ELSE dlq
            /\ unacked' = IF eff = "none" THEN unacked ELSE unacked \ {h.id}
    /\ UNCHANGED <<kind, variant, msgs, stored, mongoConnected, last, prev, buffer, pushed>>
    /\ UNCHANGED connVars
    /\ OwnWritesOnly
    /\ UNCHANGED valVars
    /\ UNCHANGED apiVars

\* a delivery that got no disposition is returned to the queue by the broker
\* (its channel went away); if it was still buffered it is never handled
RequeueDropped ==
    /\ \E id \in unacked :
         /\ \A h \in handling : h.id # id
         /\ ready' = <<id>> \o ready
         /\ unacked' = unacked \ {id}
         /\ buffer' = SelectSeq(buffer, LAMBDA d : d.id # id)
    /\ UNCHANGED <<kind, variant, msgs, dlq, stored, mongoConnected, last, prev,
                   handling, events, pushed>>
    /\ UNCHANGED connVars
    /\ OwnWritesOnly
    /\ UNCHANGED valVars
    /\ UNCHANGED apiVars

OrdNext == Push \/ HandlerEnter \/ HandlerReturn \/ RequeueDropped

SpecOrder == OrdInit /\ [][OrdNext]_vars

\* C15: at most one delivery is inside the handler at any time, and the log of
\* handler entries and dispositions alternates: each entry is followed by the
\* disposition (or the skipped disposition) of the same delivery before the next
\* entry, and deliveries are entered in increasing delivery-tag order.
C15_InOrderOneAtATime ==
    /\ Cardinality(handling) <= 1
    /\ \A p \in DOMAIN events :
          IF p % 2 = 1
          THEN /\ events[p].ev \in {"hook", "decode_error"}
               /\ p > 2 => events[p].tag > events[p - 2].tag
          ELSE /\ events[p].ev \in {"ack", "reject_dlq", "reject_requeue", "none"}
               /\ events[p].tag = events[p - 1].tag
    /\ \A k \in 1..(Len(buffer) - 1) : buffer[k].tag < buffer[k + 1].tag
    /\ \A h \in handling : \A k \in DOMAIN buffer : h.tag < buffer[k].tag

C15_Witness ==
    /\ Len(events) >= 3
    /\ events[1].tag = 1
    /\ events[2].tag = 1
    /\ events[3].ev = "hook"
    /\ events[3].tag = 2
    /\ Cardinality(handling) = 1

----------------------------------------------------------------------------
\* Properties of message handling (checked under Spec).  Every handled delivery
\* is the value of last in the state that follows it.

Handled == last.tag > 0

Body == msgs[last.id]

Issued(op) == \E i \in DOMAIN last.calls : last.calls[i].op = op

FirstCallIs(op) == last.calls # <<>> /\ last.calls[1].op = op

NoCallRaised == \A i \in DOMAIN last.calls : ~last.calls[i].raised

\* C1: a decodable delivery whose payload fails validation is never acked, stores
\* no document, and (the channel being open) is rejected with requeue=false.
C1_InvalidDeadLettered ==
    (Handled /\ last.decoded /\ ~SchemaValid(Body, kind)) =>
        /\ ~Issued("ack")
        /\ last.insert # "id"
        /\ (last.open => FirstCallIs("reject_dlq"))

\* C2: when the insert returns no identifier the hook raises a non-validation
\* error and the delivery is rejected with requeue=true; a valid message is
\* acked only after a successful insert, in every hook variant.
C2_AckOnlyIfStored ==
    Handled =>
        /\ last.insert = "None" =>
              /\ last.hook = "Error"
              /\ ~Issued("ack")
              /\ (last.open => FirstCallIs("reject_requeue"))
        /\ (SchemaValid(Body, kind) /\ Issued("ack")) => last.insert = "id"

\* C3: a schema-valid delivery, with the store available, the channel open and
\* every broker call returning normally, results in exactly one insert, one
\* basic_ack and no reject.
C3_ValidStoredAndAcked ==
    (/\ Handled
     /\ SchemaValid(Body, kind)
     /\ last.storeUp
     /\ last.open
     /\ NoCallRaised) =>
        /\ last.insert = "id"
        /\ FirstCallIs("ack")
        /\ ~Issued("reject_dlq")
        /\ ~Issued("reject_requeue")

\* C4: when the hook raises ValueError the delivery is rejected with
\* requeue=false (the channel being open), never acked and never requeued.
C4_ValidationRejected ==
    (Handled /\ last.hook = "ValueError") =>
        /\ (last.open => FirstCallIs("reject_dlq"))
        /\ ~Issued("ack")
        /\ ~Issued("reject_requeue")

\* C5 as stated: when the hook raises a non-validation failure the delivery is
\* rejected with requeue=true and not acked.
C5_TransientAlwaysRequeued ==
    (Handled /\ last.hook = "Error") => (Issued("reject_requeue") /\ ~Issued("ack"))

\* C5 (amended): when the hook raises a non-validation failure the delivery is
\* never acked and never dead-lettered; it is rejected with requeue=true if the
\* channel is open at disposition time and gets no disposition otherwise; a
\* delivery of a message whose previous delivery ended that way invokes the hook
\* again, with the same payload.
C5_TransientRequeued ==
    /\ (Handled /\ last.hook = "Error") =>
          /\ ~Issued("ack")
          /\ ~Issued("reject_dlq")
          /\ (last.open => FirstCallIs("reject_requeue"))
          /\ (~last.open => last.calls = <<>>)
          /\ (last.open /\ NoCallRaised) =>
                (last.id \in Range(ready) /\ last.id \notin dlq)
    /\ (Handled /\ last.prevHook = "Error") =>
          /\ last.decoded = Body.utf8
          /\ last.hook # "notcalled"

C5_Witness ==
    /\ Handled
    /\ last.prevHook = "Error"
    /\ last.prevEff = "reject_requeue"
    /\ last.hook = "Error"
    /\ Effective(last.calls) = "reject_requeue"

\* C6: a delivery that decodes and whose hook returns without raising is acked
\* (the channel being open) and no basic_reject is issued for it.
C6_SuccessAcked ==
    (Handled /\ last.decoded /\ last.hook = "ok") =>
        /\ (last.open => FirstCallIs("ack"))
        /\ ~Issued("reject_dlq")
        /\ ~Issued("reject_requeue")

\* C7 as stated: an undecodable delivery is rejected with requeue=false, the hook
\* is not invoked, nothing is stored and it is not requeued.
C7_UndecodableAlwaysRejected ==
    (Handled /\ ~Body.utf8) =>
        /\ Issued("reject_dlq")
        /\ last.hook = "notcalled"
        /\ last.insert = "notcalled"
        /\ ~Issued("reject_requeue")

\* C7 (amended): for an undecodable delivery the hook is never invoked, nothing is
\* stored, and the consumer issues no ack and no requeue; if the channel is open
\* at disposition time the one call issued is basic_reject(requeue=false), and
\* otherwise no call is issued; once that reject reached the broker the message
\* is in the dead-letter queue and is not delivered again.
C7_UndecodableDeadLettered ==
    /\ (Handled /\ ~Body.utf8) =>
          /\ last.hook = "notcalled"
          /\ last.insert = "notcalled"
          /\ ~\E d \in stored : d.id = last.id
          /\ ~Issued("ack")
          /\ ~Issued("reject_requeue")
          /\ (last.open => (FirstCallIs("reject_dlq") /\ Len(last.calls) = 1))
          /\ (~last.open => last.calls = <<>>)
          /\ last.prevEff # "reject_dlq"
    /\ \A id \in DOMAIN msgs :
          (~msgs[id].utf8 /\ prev[id].eff = "reject_dlq") =>
              (id \in dlq /\ id \notin Range(ready) /\ id \notin unacked)

C7_Witness ==
    /\ Handled
    /\ ~Body.utf8
    /\ Effective(last.calls) = "reject_dlq"
    /\ last.id \in dlq

\* C8: in the Stock and Price hooks a schema-valid payload without the collection
\* field makes the hook raise a non-validation error, so the delivery is rejected
\* with requeue=true (the channel being open), not dead-lettered.
C8_MissingCollectionRequeued ==
    (/\ Handled
     /\ variant = "consumer"
     /\ kind \in {"stocks", "prices"}
     /\ SchemaValid(Body, kind)
     /\ "collection" \notin DOMAIN Body.text.doc) =>
        /\ last.hook = "Error"
        /\ (last.open => FirstCallIs("reject_requeue"))
        /\ ~Issued("reject_dlq")

\* C14: every basic_ack/basic_reject the handler issues follows a guard at which
\* the channel reported open; when the channel is closed at disposition time the
\* handler issues no ack and no reject for the delivery and raises nothing,
\* whether the hook returned, raised, or was never reached.
C14_NoDispositionOnClosedChannel ==
    Handled =>
        /\ Len(last.calls) <= last.openUntil
        /\ ~last.open => (last.calls = <<>> /\ ~last.escaped)

C14_Witness ==
    /\ Handled
    /\ ~last.open
    /\ last.hook = "Error"
    /\ last.calls = <<>>
    /\ last.id \in unacked

\* C20: the handler keeps no redelivery count; while the store keeps failing, every
\* delivery of a schema-valid message is rejected with requeue=true (the channel
\* being open) and is neither acked nor dead-lettered, the first time and on
\* every redelivery.
C20_StoreFailureAlwaysRequeued ==
    (Handled /\ SchemaValid(Body, kind) /\ ~last.storeUp) =>
        /\ ~Issued("ack")
        /\ ~Issued("reject_dlq")
        /\ (last.open => FirstCallIs("reject_requeue"))

----------------------------------------------------------------------------
\* Properties of the connection lifecycle (checked under SpecConn)

Increasing(d) ==
    \A k \in 1..(Len(d) - 1) : d[k] < d[k + 1] \/ d[k + 1] = MaxRetryDelay

\* C9: a connect() call that starts on a fresh consumer and fails on every attempt
\* retries with increasing delay, makes exactly _max_connection_attempts attempts
\* and then returns False; start_consuming then returns with no handler
\* registered and is_consuming false.
C9_ConnectBudget ==
    /\ call.made <= MaxConnectionAttempts
    /\ call.start = 0 => Increasing(call.delays)
    /\ (call.start = 0 /\ call.result = "running" /\ pc = "backoff") =>
          (call.made < MaxConnectionAttempts /\ Len(call.delays) = call.made)
    /\ (call.start = 0 /\ call.result = "False") =>
          /\ call.made = MaxConnectionAttempts
          /\ Len(call.delays) = MaxConnectionAttempts - 1
          /\ pc \notin {"connect", "backoff"}
          /\ (pc = "returned" /\ closing_event = FALSE) =>
                (~registered /\ ~is_consuming /\ consumer_tag = "none")

C9_Witness ==
    /\ call.start = 0
    /\ call.result = "False"
    /\ call.made = MaxConnectionAttempts
    /\ pc = "returned"
    /\ ~is_consuming

\* C10: a reconnect that follows an earlier successful connect() gets the full
\* retry budget: if every attempt fails it makes _max_connection_attempts attempts,
\* with the backoff starting from the first step.
C10_FullBudgetAfterSuccess ==
    (caller = "reconnect" /\ call.result = "False") =>
        /\ call.made = MaxConnectionAttempts
        /\ call.delays # <<>>
        /\ call.delays[1] = retry_delay(1)

\* start_consuming is past _initialize_consumption: the initial connect succeeded
\* and the handler was registered
PastInit ==
    \/ pc \in {"loop", "pulling", "reconnect_sleep", "reconnected"}
    \/ (pc \in {"connect", "backoff"} /\ caller = "reconnect")

\* C11: once the handler is registered, a step of the consuming thread taken
\* while no stop was requested neither makes start_consuming return nor puts the
\* consumer in the stopped state, whatever connection or channel error it meets.
C11_ErrorsNeverStopConsumer ==
    [][(PastInit /\ ~should_stop /\ pc' # pc) =>
          (pc' # "returned" /\ ~should_stop')]_vars

----------------------------------------------------------------------------
\* Liveness of the connection lifecycle (checked under SpecLive)

\* The consuming thread keeps running: each of its steps is eventually taken
\* when it stays possible, and a pull on a dead channel eventually raises.
\* Calls from outside (start_consuming, stop_consuming) and failures of the
\* broker carry no fairness.
ThreadFairness ==
    /\ WF_vars(ConnectAttempt)
    /\ WF_vars(BackoffWake)
    /\ WF_vars(Register)
    /\ WF_vars(LoopTop)
    /\ WF_vars(ReconnectWake)
    /\ WF_vars(Reconnected)
    /\ WF_vars(PullRaises /\ channel # "open")

\* the lifecycle of a consumer on which stop_consuming is never called
LiveNext ==
    \/ StartConsuming
    \/ ConnectAttempt
    \/ BackoffWake
    \/ Register
    \/ LoopTop
    \/ PullRaises
    \/ PullReturns
    \/ ChannelLost
    \/ ReconnectWake
    \/ Reconnected

SpecLive == ConnInit /\ [][LiveNext]_vars /\ ThreadFairness

\* a step taken while the broker is reachable: no channel is lost, connect
\* attempts succeed, basic_consume does not raise, and the pull raises only on a
\* channel that is already gone
ReachableStep ==
    /\ (channel' = "closed" => channel = "closed")
    /\ (pc = "connect" => pc' \in {"connect", "register", "reconnected"})
    /\ (pc = "register" => pc' \in {"register", "loop"})
    /\ (pc = "reconnected" => pc' \in {"reconnected", "loop"})
    /\ (pc = "pulling" => (pc' = "pulling" \/ channel # "open"))

\* the connection or channel is lost while consuming
Lost == PastInit /\ is_consuming /\ ~should_stop /\ channel # "open"

\* the consumer holds an open channel with its handler registered
Resumed == channel = "open" /\ registered /\ is_consuming

\* C12: if stop_consuming is never called and the broker eventually becomes and
\* stays reachable, a consumer that lost its connection or channel while
\* consuming eventually holds an open channel with its handler registered again.
C12_ReconnectResumes ==
    <>[][ReachableStep]_vars => [](Lost => <>Resumed)

----------------------------------------------------------------------------
\* Properties of stop_consuming (checked under SpecConn)

\* the state stop_consuming leaves behind
Stopped ==
    /\ should_stop
    /\ ~is_consuming
    /\ channel = "none"
    /\ connection = "none"
    /\ closing_event

\* C13: a step in which stop_consuming runs (it is the only code that sets
\* should_stop), whether or not basic_cancel or a close call raises, ends with
\* should_stop true, is_consuming false, channel and connection None and the
\* latch set; run in that state again, it changes nothing.
C13_StopPostcondition ==
    [][((~should_stop /\ should_stop') \/ StopConsuming) =>
          (Stopped' /\ (Stopped => UNCHANGED vars))]_vars

C13_Witness ==
    /\ Stopped
    /\ consumer_tag = "tag"
    /\ pc \in {"pulling", "returned"}

----------------------------------------------------------------------------
\* Properties of the backoff (checked under SpecConn)

\* C16: the wait before a retry is min(RABBITMQ_RETRY_DELAY * 2^attempt, 60),
\* attempt being the counter when the attempt failed (the counter is one higher
\* during the wait); within one connect() call the waits never decrease and
\* never exceed the 60-second cap.
C16_BackoffDelay ==
    /\ pc = "backoff" =>
          /\ call.delays # <<>>
          /\ LET attempt == connection_attempts - 1
                 exp == RetryDelay * Pow2(attempt)
             IN call.delays[Len(call.delays)] =
                    IF exp < MaxRetryDelay THEN exp ELSE MaxRetryDelay
    /\ \A k \in DOMAIN call.delays : call.delays[k] <= MaxRetryDelay
    /\ \A k \in 1..(Len(call.delays) - 1) : call.delays[k] <= call.delays[k + 1]

C16_Witness ==
    /\ pc = "backoff"
    /\ Len(call.delays) >= 5
    /\ call.delays[1] = 10
    /\ call.delays[3] = 40
    /\ call.delays[5] = 60

\* C17: the attempt counter stays between 0 and _max_connection_attempts.
C17_CounterBounded ==
    connection_attempts \in 0..MaxConnectionAttempts

C17_Witness ==
    /\ connection_attempts = MaxConnectionAttempts
    /\ call.result = "False"
    /\ caller = "reconnect"

----------------------------------------------------------------------------
\* Properties of the channel set-up (checked under SpecConn)

\* the three calls with the arguments the consumer of collection k must use
ExpectedSetup(k) ==
    << [op |-> "basic_qos", prefetch_count |-> 10],
       [op |-> "queue_declare", queue |-> k \o ".dlq", durable |-> TRUE,
        arguments |-> [ttl |-> 604800000]],
       [op |-> "queue_declare", queue |-> k, durable |-> TRUE,
        arguments |-> [dlx |-> "", dlrk |-> k \o ".dlq"]] >>

\* C18: a connect() that returned True has applied the prefetch limit and declared
\* the dead-letter queue and then the main queue on the new channel, with the same
\* arguments every time; the handler is registered only on a channel on which
\* all of that was done.
C18_SetupBeforeRegister ==
    /\ (call.result = "True" /\ pc \in {"register", "reconnected"}) =>
          chanOps = ExpectedSetup(kind)
    /\ (registered /\ channel = "open") => chanOps = ExpectedSetup(kind)

\* C19: every declaration the consumer makes names either its main queue, with
\* dead-letter routing through the default exchange to queue_name followed by the
\* configured suffix, or the queue of exactly that name, declared before it on
\* the same channel; this holds for the first connect and for every reconnect,
\* so a message rejected with requeue=false goes to that one queue.
C19_DeadLetterNaming ==
    \A i \in DOMAIN chanOps :
        chanOps[i].op = "queue_declare" =>
            \/ /\ chanOps[i].queue = kind
               /\ chanOps[i].arguments = [dlx |-> "", dlrk |-> kind \o ".dlq"]
               /\ \E j \in 1..(i - 1) :
                     /\ chanOps[j].op = "queue_declare"
                     /\ chanOps[j].queue = chanOps[i].arguments.dlrk
            \/ /\ chanOps[i].queue = kind \o ".dlq"
               /\ "dlrk" \notin DOMAIN chanOps[i].arguments

C19_Witness ==
    /\ caller = "reconnect"
    /\ call.result = "True"
    /\ registered
    /\ channel = "open"
    /\ kind = "stocks"
    /\ Len(chanOps) = 3
    /\ chanOps[3].arguments.dlrk = "stocks.dlq"

----------------------------------------------------------------------------
\* Several consumers (checked under SpecMulti): the lifecycle of one consumer
\* while the consumers of the other collections are constructed or consuming

MultiInit ==
    /\ ConnConstructed
    /\ kind \in Collections
    /\ variant = "consumer"
    /\ msgs = <<>>
    /\ ready = <<>>
    /\ unacked = {}
    /\ dlq = {}
    /\ stored = {}
    /\ mongoConnected = FALSE
    /\ last = NoDelivery
    /\ prev = <<>>
    /\ NoDispatch
    /\ siblings \in [Collections \ {kind} -> {SiblingConstructed, SiblingConsuming}]
    /\ NoValidation
    /\ NoApi

SpecMulti == MultiInit /\ [][ConnNext]_vars

\* C21: no step of a consumer (connect attempt, backoff, registration, pull
\* failure, reconnect, stop) changes the connection, channel, flags, attempt
\* counter or consumer tag of the consumer of another collection; a sibling that
\* is consuming stays so when this consumer fails or stops.
C21_SiblingsUntouched ==
    [][\A c \in Collections \ {kind} :
          /\ siblings'[c].connection = siblings[c].connection
          /\ siblings'[c].channel = siblings[c].channel
          /\ siblings'[c].is_consuming = siblings[c].is_consuming
          /\ siblings'[c].should_stop = siblings[c].should_stop
          /\ siblings'[c].connection_attempts = siblings[c].connection_attempts
          /\ siblings'[c].consumer_tag = siblings[c].consumer_tag]_vars

C21_Witness ==
    /\ Stopped
    /\ call.result = "False"
    /\ connection_attempts = MaxConnectionAttempts
    /\ \E c \in Collections \ {kind} :
          siblings[c].is_consuming /\ ~siblings[c].should_stop
                                   /\ siblings[c].connection_attempts = 1

----------------------------------------------------------------------------
\* validate_message on its own (checked under SpecVal): one call on a message
\* text and a collection name.  The texts are malformed JSON, the well-formed
\* values that are not objects, the empty object, and the payloads of each
\* schema with up to MaxDefects fields removed or given a value of any type,
\* with and without an undeclared field; every text is validated against every
\* collection name, known or not.

MaxDefects == 2

Absent == "absent"

NonObjects == {"array", "string", "number", "boolean", "null"}

CollectionNames == Collections \cup {"unknown_collection"}

Alter(doc, a) ==
    [f \in DOMAIN doc \ {g \in DOMAIN a : a[g] = Absent} |->
        IF f \in DOMAIN a THEN a[f] ELSE doc[f]]

Payloads(coll) ==
    UNION { UNION { {Alter(base, a) : a \in [S -> Values \cup {Absent}]} :
                    S \in {T \in SUBSET DOMAIN base : Cardinality(T) <= MaxDefects} } :
            base \in {ValidDoc(coll), ValidDocWithCollection(coll)} }

Texts ==
    {Text(j, EmptyDoc) : j \in NonObjects \cup {"malformed", "object"}}
        \cup {Text("object", d) : d \in UNION {Payloads(c) : c \in Collections}}

ValInit ==
    /\ ConnConstructed
    /\ kind = "products"
    /\ variant = "consumer"
    /\ msgs = <<>>
    /\ ready = <<>>
    /\ unacked = {}
    /\ dlq = {}
    /\ stored = {}
    /\ mongoConnected = FALSE
    /\ last = NoDelivery
    /\ prev = <<>>
    /\ NoDispatch
    /\ siblings = SiblingsConstructed(kind)
    /\ vIn \in [text : Texts, coll : CollectionNames]
    /\ vOut = [called |-> FALSE, document |-> EmptyDoc, errors |-> <<>>]
    /\ NoApi

\* validate_message(message_str, collection_name) returns
Validate ==
    /\ ~vOut.called
    /\ \E r \in {validate_message(vIn.text, vIn.coll)} :
          vOut' = [called |-> TRUE, document |-> r.document, errors |-> r.errors]
    /\ UNCHANGED vIn
    /\ UNCHANGED msgVars
    /\ UNCHANGED connVars
    /\ UNCHANGED ordVars
    /\ UNCHANGED siblings
    /\ UNCHANGED apiVars

ValNext == Validate

SpecVal == ValInit /\ [][ValNext]_vars

\* the call returned a result for an object payload validated against a schema
Checked == vOut.called /\ vIn.text.json = "object" /\ vIn.coll \in Collections

ErrorsFor(f) == {i \in DOMAIN vOut.errors : vOut.errors[i].field = f}

ErrorsOfKind(k) == {i \in DOMAIN vOut.errors : vOut.errors[i].kind = k}

\* a JSON value as the claim's schema reading accepts it: strings for string
\* fields, an integer for quantity, any JSON number for the price fields
JsonConforms(v, t) ==
    CASE t = "str" -> v \in {"str", "estr"}
      [] t = "int" -> v = "int"
      [] t = "float" -> v \in {"int", "float"}
      [] OTHER -> FALSE

Conforming(doc, coll) ==
    /\ DOMAIN doc = Range(SchemaFields(coll))
    /\ \A f \in DOMAIN doc : JsonConforms(doc[f], SchemaType(coll, f))

\* C22: for every payload that conforms to its schema (string fields given as
\* strings, quantity as an integer, the three price fields as JSON numbers)
\* validate_message returns an empty error list and a document with exactly
\* the input's fields.
C22_ValidPayloadAccepted ==
    (Checked /\ Conforming(vIn.text.doc, vIn.coll)) =>
        (vOut.errors = <<>> /\ vOut.document = vIn.text.doc)

\* C23: the result is either a non-empty document with an empty error list or
\* the empty document with a non-empty error list, never a non-empty document
\* together with errors.
C23_DocumentOrErrors ==
    vOut.called =>
        \/ vOut.document # EmptyDoc /\ vOut.errors = <<>>
        \/ vOut.document = EmptyDoc /\ vOut.errors # <<>>

C25_UnknownCollectionFirstError ==
    (vOut.called /\ vIn.text.json = "object" /\ vIn.coll \notin Collections) =>
        (vOut.errors # <<>> /\ vOut.errors[1].kind = "Unknown collection")

C25_Witness ==
    /\ vOut.called
    /\ vIn.coll \notin Collections
    /\ vIn.text = Text("object", ValidDocWithCollection("stocks"))
    /\ vOut.errors # <<>>
    /\ vOut.errors[1].kind = "Unknown collection"

\* the required fields the payload lacks
MissingFields == Range(SchemaFields(vIn.coll)) \ DOMAIN vIn.text.doc

\* C26: the error list has exactly one "Missing required field" entry for each
\* required field the payload lacks and none for a field it has, no "Invalid
\* type" entry for a missing field, and no entry for a field the schema does
\* not declare.
C26_MissingFieldsReported ==
    Checked =>
        /\ \A f \in MissingFields :
              /\ Cardinality(ErrorsFor(f) \cap ErrorsOfKind("Missing required field")) = 1
              /\ ErrorsFor(f) \cap ErrorsOfKind("Invalid type for field") = {}
        /\ \A i \in ErrorsOfKind("Missing required field") :
              vOut.errors[i].field \in MissingFields
        /\ \A i \in DOMAIN vOut.errors :
              vOut.errors[i].field \in Range(SchemaFields(vIn.coll))

C26_Witness ==
    /\ Checked
    /\ vIn.coll = "stocks"
    /\ MissingFields = {"warehouse_id", "location"}
    /\ "collection" \in DOMAIN vIn.text.doc
    /\ ErrorsOfKind("Missing required field") = {1, 2}
    /\ Len(vOut.errors) = 2

\* the value of a present field is not of the runtime type the schema declares
WrongType(doc, coll, f) == f \in DOMAIN doc /\ TypeName(doc[f]) # SchemaType(coll, f)

\* C27: a required field that is present has an "Invalid type for field" entry
\* naming the expected and the actual type exactly when its value is of
\* another runtime type than the schema declares.
C27_WrongTypeReported ==
    Checked =>
        \A f \in Range(SchemaFields(vIn.coll)) \cap DOMAIN vIn.text.doc :
            WrongType(vIn.text.doc, vIn.coll, f) <=>
                (\E i \in ErrorsFor(f) :
                    /\ vOut.errors[i].kind = "Invalid type for field"
                    /\ vOut.errors[i].expected = SchemaType(vIn.coll, f)
                    /\ vOut.errors[i].actual = TypeName(vIn.text.doc[f]))

\* the required fields that are missing or wrong-typed, in declaration order
Flagged(doc, coll) ==
    SelectSeq(SchemaFields(coll),
              LAMBDA f : f \notin DOMAIN doc \/ WrongType(doc, coll, f))

\* C28: the error list has exactly one entry per required field that is
\* missing or wrong-typed, in the order the schema declares the fields; a
\* missing field does not suppress the check of a later one.
C28_OneEntryPerFieldInOrder ==
    Checked =>
        /\ Len(vOut.errors) = Len(Flagged(vIn.text.doc, vIn.coll))
        /\ \A i \in DOMAIN vOut.errors :
              vOut.errors[i].field = Flagged(vIn.text.doc, vIn.coll)[i]

\* C29: malformed JSON gives the empty document and exactly one error, which
\* begins with "Invalid JSON", for a known and for an unknown collection name.
C29_MalformedJson ==
    (vOut.called /\ vIn.text.json = "malformed") =>
        /\ vOut.document = EmptyDoc
        /\ Len(vOut.errors) = 1
        /\ vOut.errors[1].kind = "Invalid JSON"

C29_Witness ==
    /\ vOut.called
    /\ vIn.text.json = "malformed"
    /\ vIn.coll = "unknown_collection"
    /\ ErrorsOfKind("Invalid JSON") = {1}

\* C30: well-formed JSON that is not an object gives the empty document and
\* the single error "Message must be a JSON object", for a known and for an
\* unknown collection name alike.
C30_NonObjectRejected ==
    (vOut.called /\ vIn.text.json \in NonObjects) =>
        /\ vOut.document = EmptyDoc
        /\ Len(vOut.errors) = 1
        /\ vOut.errors[1].kind = "Message must be a JSON object"
        /\ vOut.errors[1].field = ""

C30_Witness ==
    /\ vOut.called
    /\ vIn.text.json = "array"
    /\ vIn.coll = "unknown_collection"
    /\ ErrorsOfKind("Message must be a JSON object") = {1}

\* the payload without the keys in X
WithoutKeys(doc, X) == [f \in DOMAIN doc \ X |-> doc[f]]

\* the keys of the payload that the schema does not declare
ExtraKeys == DOMAIN vIn.text.doc \ Range(SchemaFields(vIn.coll))

\* C31: keys the schema does not declare are ignored: the error list for a
\* payload is the error list for the same payload without any set of its
\* undeclared keys, so an undeclared key never causes a rejection.
C31_ExtrasIgnored ==
    Checked =>
        \A X \in SUBSET ExtraKeys :
            validate_message(Text("object", WithoutKeys(vIn.text.doc, X)),
                             vIn.coll).errors = vOut.errors

C31_Witness ==
    /\ Checked
    /\ vIn.coll = "stocks"
    /\ ExtraKeys = {"collection"}
    /\ vIn.text.doc["collection"] = "int"
    /\ vOut.errors = <<>>

\* the lookup answered last asked for the code of a schema-valid product
\* message that the Product consumer had acknowledged, with the store reachable
LookupAfterAck ==
    /\ response.status # 0
    /\ kind = "products"
    /\ response.code > 0
    /\ SchemaValid(msgs[response.code], "products")
    /\ response.acked
    /\ response.store = "up"

\* C32: once a schema-valid product message was acknowledged by the Product
\* consumer, a lookup of its product code answers 200 with that document; a
\* lookup of a code that was never stored answers 404, "not found".
C32_LookupAfterAck ==
    /\ LookupAfterAck =>
          /\ response.status = 200
          /\ \A f \in DOMAIN msgs[response.code].text.doc :
                /\ f \in DOMAIN response.body
                /\ response.body[f] = msgs[response.code].text.doc[f]
    /\ (response.status # 0 /\ response.code = 0) =>
          (response.status = 404 /\ response.detail = "not found")

\* the lookup answered last could not read the store
LookupFailed == response.status # 0 /\ response.store # "up"

\* C33: a lookup answers 200, 404 or 500, and a lookup that could not read the
\* store (unreachable, or the query raised) answers 500, never 404.
C33_StoreFailureIs500 ==
    /\ response.status \in {0, 200, 404, 500}
    /\ LookupFailed => response.status = 500

----------------------------------------------------------------------------
\* Termination after stop_consuming (checked under SpecStop): the lifecycle
\* with stop_consuming called at any point, the consuming thread running on

SpecStop == ConnInit /\ [][ConnNext]_vars /\ ThreadFairness

\* start_consuming is running
Running == pc \notin {"idle", "returned"}

\* C34: once stop_consuming was called on a running consumer, wherever its
\* thread is (pulling, in the reconnect wait, inside connect's retry cycle),
\* the consumption loop eventually exits and start_consuming returns.
C34_StopTerminates == (should_stop /\ Running) ~> (pc = "returned")

C34_Witness ==
    /\ pc = "returned"
    /\ should_stop
    /\ closing_event
    /\ caller = "reconnect"
    /\ call.result = "True"
    /\ call.made > 1
    /\ connection = "open"

----------------------------------------------------------------------------
\* The completion latch and the handles after a stop (checked under SpecConn)

\* C35: whenever start_consuming has returned, for whatever reason (stop
\* requested, connect budget of the initial connect exhausted, unexpected
\* error), the completion latch is set.
C35_ReturnedImpliesLatch == pc = "returned" => closing_event

\* C36: the completion latch is set only while the consumer is stopped: in
\* every state, also after start_consuming was called again on a stopped
\* consumer, latch set implies is_consuming false and no handler registered.
C36_LatchOnlyWhileStopped == closing_event => (~is_consuming /\ ~registered)

\* C37: once stop_consuming has returned and the consumption loop has exited,
\* the consumer holds no connection and no channel and has no handler
\* registered, wherever its thread was when the stop arrived.
C37_NothingHeldAfterStop ==
    (pc = "returned" /\ should_stop) =>
        (connection = "none" /\ channel = "none" /\ ~registered)

\* C38: the consumer has at most one open broker connection, the one it
\* references, and its channel was made on that connection: a connect attempt
\* that fails after its connection was opened leaves no open connection behind
\* when the next attempt opens a new one.
C38_OneConnection ==
    /\ ~links.orphaned
    /\ channel # "none" => links.chanOwn

----------------------------------------------------------------------------
\* Disposition calls per delivery (checked under Spec)

\* C39: the handler issues at most one disposition call for a delivery, also
\* when the first ack or reject call itself raises, and a delivery for which
\* basic_ack was issued is not also rejected.
C39_AtMostOneDisposition ==
    Handled =>
        /\ Len(last.calls) <= 1
        /\ Issued("ack") => ~(Issued("reject_requeue") \/ Issued("reject_dlq"))

----------------------------------------------------------------------------
\* The pull and the registration (checked under SpecConn)

\* C40: while the consumer is not stopped, whenever its thread is in the
\* channel's start_consuming on an open channel, the handler is registered on
\* that channel, also after the broker cancelled the registration without
\* closing the channel.
C40_PullOnlyWhenRegistered ==
    (pc = "pulling" /\ ~should_stop /\ channel = "open") => registered

====
